---- MODULE Spec2Model ----
(***************************************************************************)
(* Cost-basis ledger of the portfolio tracker: Portfolio (deposit, add_tx, *)
(* from_csv) and Trade::to_tx.                                             *)
(*                                                                         *)
(* Decimal values are fixed-point integers counting units of               *)
(* 10^-DecDigits.  rust_decimal keeps at most 28 fractional digits and     *)
(* rounds a quotient that needs more; the model keeps DecDigits fractional *)
(* digits and rounds the same way, so 2/3 is 0.67 here and                 *)
(* 0.6666666666666666666666666667 in the program.  Amounts entering the    *)
(* ledger are whole numbers, so products are exact and the only rounding   *)
(* is that of the average cost; within MaxSteps calls every quotient that  *)
(* is rounded here (thirds, sixths) is rounded by the program as well.     *)
(***************************************************************************)
EXTENDS Integers, Sequences, FiniteSets, TLC

\* ------------------------------------------------------------------ bounds
DecDigits == 2
MaxAmt == 3
MaxSteps == 3
MaxLog == 2

\* ------------------------------------------------------------ decimal type
Scale == 10 ^ DecDigits

\* n / d rounded to the nearest integer, ties to even (d > 0)
RoundHalfEven(n, d) ==
    LET q == n \div d
        r == n % d
    IN  IF 2 * r < d THEN q
        ELSE IF 2 * r > d THEN q + 1
        ELSE IF q % 2 = 0 THEN q ELSE q + 1

\* Decimal / Decimal; the divisor is never zero where the model uses it
DecDiv(a, b) ==
    IF b < 0 THEN RoundHalfEven((0 - a) * Scale, 0 - b)
    ELSE RoundHalfEven(a * Scale, b)

\* Decimal * Decimal
DecMul(a, b) == RoundHalfEven(a * b, Scale)

\* the decimal literal n (dec!(n)) as a fixed-point value
Dec(n) == n * Scale

\* -------------------------------------------------------------- currencies
USD == "USD"
BTC == "BTC"
ETH == "ETH"
Currencies == {USD, BTC, ETH}

\* quote::tmp::quote_usd: the USD price used for a non-USD deposit
quote_usd(c) == IF c = BTC THEN Dec(2) ELSE Dec(1)

\* ---------------------------------------------------------------- Position
PositionNew == [balance |-> 0, cost_base |-> 0]

\* HashMap::entry(c).or_insert(Position::new(c))
EntryOrInsert(p, c) ==
    IF c \in DOMAIN p THEN p
    ELSE [k \in DOMAIN p \cup {c} |-> IF k = c THEN PositionNew ELSE p[k]]

\* --------------------------------------------------------------- Portfolio
PortfolioNew == [k \in {} |-> PositionNew]

\* deposit with the 1:1 rule applied to every currency
deposit_always_1to1(p, currency, amount) ==
    LET q == EntryOrInsert(p, currency)
    IN  [q EXCEPT ![currency] =
            [balance |-> @.balance + amount,
             cost_base |-> @.cost_base + amount]]

deposit(p, currency, amount) ==
    LET q == EntryOrInsert(p, currency)
        added == IF currency = USD THEN amount
                 ELSE DecMul(amount, quote_usd(currency))
    IN  [q EXCEPT ![currency] =
            [balance |-> @.balance + amount,
             cost_base |-> @.cost_base + added]]

\* add_tx that takes the sold amount off the balance before it bails
add_tx_late_bail(p, tx) ==
    LET p1 == EntryOrInsert(p, tx.sell)
        sell_pos == p1[tx.sell]
        p2 == [p1 EXCEPT ![tx.sell] =
                  [balance |-> @.balance - tx.sell_size,
                   cost_base |-> @.cost_base]]
    IN  IF sell_pos.balance < tx.sell_size
        THEN [ok |-> FALSE, positions |-> p2]
        ELSE
          LET avg_cost == IF tx.sell = USD THEN Dec(1)
                          ELSE DecDiv(sell_pos.cost_base, sell_pos.balance)
              cost_basis_sold == DecMul(avg_cost, tx.sell_size)
              p3 == [p2 EXCEPT ![tx.sell] =
                        [balance |-> @.balance,
                         cost_base |-> @.cost_base - cost_basis_sold]]
              p4 == EntryOrInsert(p3, tx.buy)
              p5 == [p4 EXCEPT ![tx.buy] =
                        [balance |-> @.balance + tx.buy_size,
                         cost_base |-> @.cost_base + cost_basis_sold]]
          IN  [ok |-> TRUE, positions |-> p5]

\* add_tx that books the amount paid, not the cost removed, on the buy side
add_tx_cost_is_price(p, tx) ==
    LET p1 == EntryOrInsert(p, tx.sell)
        sell_pos == p1[tx.sell]
    IN  IF sell_pos.balance < tx.sell_size
        THEN [ok |-> FALSE, positions |-> p1]
        ELSE
          LET avg_cost == IF tx.sell = USD THEN Dec(1)
                          ELSE DecDiv(sell_pos.cost_base, sell_pos.balance)
              cost_basis_sold == DecMul(avg_cost, tx.sell_size)
              p2 == [p1 EXCEPT ![tx.sell] =
                        [balance |-> @.balance - tx.sell_size,
                         cost_base |-> @.cost_base - cost_basis_sold]]
              p3 == EntryOrInsert(p2, tx.buy)
              p4 == [p3 EXCEPT ![tx.buy] =
                        [balance |-> @.balance + tx.buy_size,
                         cost_base |-> @.cost_base + tx.sell_size]]
          IN  [ok |-> TRUE, positions |-> p4]

\* add_tx that leaves the cost of what was sold on the sell position
add_tx_cost_kept(p, tx) ==
    LET p1 == EntryOrInsert(p, tx.sell)
        sell_pos == p1[tx.sell]
    IN  IF sell_pos.balance < tx.sell_size
        THEN [ok |-> FALSE, positions |-> p1]
        ELSE
          LET avg_cost == IF tx.sell = USD THEN Dec(1)
                          ELSE DecDiv(sell_pos.cost_base, sell_pos.balance)
              cost_basis_sold == DecMul(avg_cost, tx.sell_size)
              p2 == [p1 EXCEPT ![tx.sell] =
                        [balance |-> @.balance - tx.sell_size,
                         cost_base |-> @.cost_base]]
              p3 == EntryOrInsert(p2, tx.buy)
              p4 == [p3 EXCEPT ![tx.buy] =
                        [balance |-> @.balance + tx.buy_size,
                         cost_base |-> @.cost_base + cost_basis_sold]]
          IN  [ok |-> TRUE, positions |-> p4]

\* Result of add_tx: ok = FALSE is the Err return; positions is the map the
\* caller holds afterwards in either case.
add_tx(p, tx) ==
    LET p1 == EntryOrInsert(p, tx.sell)
        sell_pos == p1[tx.sell]
    IN  IF sell_pos.balance < tx.sell_size
        THEN [ok |-> FALSE, positions |-> p1]
        ELSE
          LET avg_cost == IF tx.sell = USD THEN Dec(1)
                          ELSE DecDiv(sell_pos.cost_base, sell_pos.balance)
              cost_basis_sold == DecMul(avg_cost, tx.sell_size)
              p2 == [p1 EXCEPT ![tx.sell] =
                        [balance |-> @.balance - tx.sell_size,
                         cost_base |-> @.cost_base - cost_basis_sold]]
              p3 == EntryOrInsert(p2, tx.buy)
              p4 == [p3 EXCEPT ![tx.buy] =
                        [balance |-> @.balance + tx.buy_size,
                         cost_base |-> @.cost_base + cost_basis_sold]]
          IN  [ok |-> TRUE, positions |-> p4]

\* ------------------------------------------------------------------- Trade
Buy == "Buy"
Sell == "Sell"

\* trading pairs that appear in the modelled logs; the quote is one of
\* QuoteCurrency::{Usd, Btc}
Pairs == {[base |-> BTC, quote |-> USD],
          [base |-> ETH, quote |-> BTC],
          [base |-> BTC, quote |-> BTC]}

\* positive_decimal that lets zero through
positive_decimal_zero_ok(d) == [ok |-> d >= 0, value |-> d]

\* serde deserialize_with: the value is rejected unless it is > 0.  The
\* values of the model are whole numbers, which the f64 step preserves.
positive_decimal(d) == [ok |-> d > 0, value |-> d]

\* Deserialize for Trade: every field must deserialize
deserialize_trade(rec) ==
    LET a == positive_decimal(rec.amount)
        pr == positive_decimal(rec.price)
        f == positive_decimal(rec.fee)
    IN  [ok |-> a.ok /\ pr.ok /\ f.ok,
         trade |-> [pair |-> rec.pair, side |-> rec.side,
                    amount |-> a.value, price |-> pr.value, fee |-> f.value]]

\* to_tx that adds the fee on both sides
to_tx_fee_added(trade) ==
    IF trade.side = Buy
    THEN [buy |-> trade.pair.base,
          buy_size |-> trade.amount,
          sell |-> trade.pair.quote,
          sell_size |-> DecMul(trade.amount, trade.price) + trade.fee]
    ELSE [buy |-> trade.pair.quote,
          buy_size |-> DecMul(trade.amount, trade.price) + trade.fee,
          sell |-> trade.pair.base,
          sell_size |-> trade.amount]

to_tx(trade) ==
    IF trade.side = Buy
    THEN [buy |-> trade.pair.base,
          buy_size |-> trade.amount,
          sell |-> trade.pair.quote,
          sell_size |-> DecMul(trade.amount, trade.price) + trade.fee]
    ELSE [buy |-> trade.pair.quote,
          buy_size |-> DecMul(trade.amount, trade.price) - trade.fee,
          sell |-> trade.pair.base,
          sell_size |-> trade.amount]

\* the loop body that skips a record it cannot apply and carries on
from_csv_record_skip(p, rec) ==
    LET d == deserialize_trade(rec)
        trade == d.trade
        p1 == IF trade.pair.quote = USD
              THEN deposit(p, USD, DecMul(trade.amount, trade.price) + trade.fee)
              ELSE p
        r == add_tx(p1, to_tx(trade))
    IN  IF ~d.ok THEN [ok |-> TRUE, positions |-> p]
        ELSE IF ~r.ok THEN [ok |-> TRUE, positions |-> p]
        ELSE r

\* One iteration of the loop of Portfolio::from_csv on one record
from_csv_record(p, rec) ==
    LET d == deserialize_trade(rec)
        trade == d.trade
        p1 == IF trade.pair.quote = USD
              THEN deposit(p, USD, DecMul(trade.amount, trade.price) + trade.fee)
              ELSE p
    IN  IF ~d.ok THEN [ok |-> FALSE, positions |-> p]
        ELSE add_tx(p1, to_tx(trade))

\* ----------------------------------------------------------------- strings
\* A string is a sequence of one-character strings; the inputs are ASCII.
LowerCase == <<"a", "b", "c", "d", "e", "f", "g", "h", "i", "j", "k", "l", "m", "n", "o", "p", "q", "r", "s", "t", "u", "v", "w", "x", "y", "z">>
UpperCase == <<"A", "B", "C", "D", "E", "F", "G", "H", "I", "J", "K", "L", "M", "N", "O", "P", "Q", "R", "S", "T", "U", "V", "W", "X", "Y", "Z">>
Whitespace == {" ", "\t", "\n"}

\* char::to_ascii_uppercase
UpperChar(ch) ==
    IF \E i \in 1..Len(LowerCase) : LowerCase[i] = ch
    THEN UpperCase[CHOOSE i \in 1..Len(LowerCase) : LowerCase[i] = ch]
    ELSE ch

\* str::to_ascii_uppercase, str::to_uppercase on ASCII input
to_uppercase(s) == [i \in 1..Len(s) |-> UpperChar(s[i])]

\* str::trim
trim(s) ==
    LET keep == {i \in 1..Len(s) : s[i] \notin Whitespace}
    IN  IF keep = {} THEN <<>>
        ELSE LET first == CHOOSE i \in keep : \A j \in keep : i <= j
                 last == CHOOSE i \in keep : \A j \in keep : j <= i
             IN  SubSeq(s, first, last)

\* str::split(sep) collected: the pieces between the separators
RECURSIVE split(_, _)
split(s, sep) ==
    IF \A i \in 1..Len(s) : s[i] # sep THEN <<s>>
    ELSE LET k == CHOOSE i \in 1..Len(s) :
                      s[i] = sep /\ \A j \in 1..(i - 1) : s[j] # sep
         IN  <<SubSeq(s, 1, k - 1)>> \o split(SubSeq(s, k + 1, Len(s)), sep)

\* ---------------------------------------------------------------- Currency
FIAT == {
    <<"U", "S", "D">>, <<"E", "U", "R">>, <<"C", "A", "D">>}

STABLES == {
    <<"U", "S", "D", "C">>, <<"U", "S", "D", "T">>, <<"U", "S", "D", "S">>, <<"D", "A", "I">>,
    <<"U", "S", "D", "E">>}

CRYPTO == {
    <<"B", "T", "C">>, <<"E", "T", "H">>, <<"X", "R", "P">>, <<"B", "N", "B">>,
    <<"S", "O", "L">>, <<"T", "R", "X">>, <<"D", "O", "G", "E">>, <<"A", "D", "A">>,
    <<"B", "C", "H">>, <<"L", "I", "N", "K">>, <<"H", "Y", "P", "E">>, <<"L", "E", "O">>,
    <<"W", "E", "T", "H">>, <<"X", "L", "M">>, <<"X", "M", "R">>, <<"S", "U", "I">>,
    <<"A", "V", "A", "X">>, <<"L", "T", "C">>, <<"H", "B", "A", "R">>, <<"Z", "E", "C">>,
    <<"S", "H", "I", "B">>, <<"C", "R", "O">>, <<"T", "O", "N">>, <<"D", "O", "T">>,
    <<"U", "N", "I">>, <<"M", "N", "T">>, <<"A", "A", "V", "E">>, <<"T", "A", "O">>,
    <<"B", "G", "B">>, <<"M">>, <<"S">>, <<"O", "K", "B">>,
    <<"N", "E", "A", "R">>, <<"A", "S", "T", "E", "R">>, <<"E", "T", "C">>, <<"I", "C", "P">>,
    <<"P", "I">>, <<"P", "E", "P", "E">>, <<"R", "A", "I", "N">>, <<"P", "U", "M", "P">>,
    <<"O", "N", "D", "O">>, <<"H", "T", "X">>, <<"J", "L", "P">>, <<"K", "A", "S">>}

\* normalize_ticker that strips one whitespace character from each end
normalize_ticker_strip_one(s) ==
    LET a == IF Len(s) > 0 /\ s[1] \in Whitespace THEN SubSeq(s, 2, Len(s)) ELSE s
        b == IF Len(a) > 0 /\ a[Len(a)] \in Whitespace
             THEN SubSeq(a, 1, Len(a) - 1) ELSE a
    IN  to_uppercase(b)

normalize_ticker(s) == to_uppercase(trim(s))

\* Option<CurrencyType>: "None" when the ticker is in no list
classify_ticker(ticker) ==
    IF ticker \in FIAT THEN "Fiat"
    ELSE IF ticker \in STABLES THEN "StableCoin"
    ELSE IF ticker \in CRYPTO THEN "Crypto"
    ELSE "None"

\* Currency::new that classifies the ticker as given
currency_new_raw(ticker) ==
    [ok |-> classify_ticker(ticker) # "None",
     currency |-> [ticker |-> normalize_ticker(ticker)]]

\* Currency::new: Err when the normalized ticker is in no list
currency_new(ticker) ==
    LET t == normalize_ticker(ticker)
    IN  [ok |-> classify_ticker(t) # "None", currency |-> [ticker |-> t]]

\* Currency::currency_type: the expect() panics on None
currency_type(currency) ==
    LET ty == classify_ticker(currency.ticker)
    IN  [panic |-> ty = "None", type |-> ty]

is_valid(ticker) == classify_ticker(normalize_ticker(ticker)) # "None"

\* --------------------------------------------------------------- timestamp
MIN_TIMESTAMP == 1231027200

\* ts_seconds::deserialize that turns the floor itself away
ts_deserialize_floor_excluded(ts, now_epoch) ==
    [ok |-> ~(ts <= MIN_TIMESTAMP) /\ ~(ts > now_epoch), value |-> ts]

\* ts_seconds::deserialize with the clock reading now_epoch
ts_deserialize(ts, now_epoch) ==
    [ok |-> ~(ts < MIN_TIMESTAMP) /\ ~(ts > now_epoch), value |-> ts]

\* ------------------------------------------------------------- TradingPair
\* QuoteCurrency::from_str: Usd or Btc, matched on the uppercased text
quote_from_str(s) ==
    LET u == to_uppercase(s)
    IN  IF u = <<"U", "S", "D">> THEN [ok |-> TRUE, value |-> "Usd"]
        ELSE IF u = <<"B", "T", "C">> THEN [ok |-> TRUE, value |-> "Btc"]
        ELSE [ok |-> FALSE, value |-> "Usd"]

\* Display for QuoteCurrency
quote_display(q) == IF q = "Usd" THEN <<"U", "S", "D">> ELSE <<"B", "T", "C">>

\* the table of tickers loaded at start-up
TickerTable == FIAT \cup STABLES \cup CRYPTO

\* Ticker::from_str: a Ticker whose id is the text, if the table holds it
ticker_from_str(s) == [ok |-> s \in TickerTable, value |-> [id |-> s]]

\* Deserialize for TradingPair that looks only at the first two parts
deserialize_pair_first_two(s) ==
    LET parts == [i \in 1..Len(split(s, "/")) |-> to_uppercase(split(s, "/")[i])]
        NoPair == [base |-> [id |-> <<>>], quote |-> "Usd"]
    IN  IF Len(parts) < 2 THEN [ok |-> FALSE, pair |-> NoPair]
        ELSE IF trim(parts[1]) = <<>> THEN [ok |-> FALSE, pair |-> NoPair]
        ELSE LET base_curr == ticker_from_str(parts[1])
                 quote_curr == quote_from_str(parts[2])
             IN  IF ~base_curr.ok \/ ~quote_curr.ok
                 THEN [ok |-> FALSE, pair |-> NoPair]
                 ELSE [ok |-> TRUE,
                       pair |-> [base |-> base_curr.value,
                                 quote |-> quote_curr.value]]

\* Deserialize for TradingPair
deserialize_pair(s) ==
    LET parts == [i \in 1..Len(split(s, "/")) |-> to_uppercase(split(s, "/")[i])]
        NoPair == [base |-> [id |-> <<>>], quote |-> "Usd"]
    IN  IF Len(parts) # 2 THEN [ok |-> FALSE, pair |-> NoPair]
        ELSE IF trim(parts[1]) = <<>> THEN [ok |-> FALSE, pair |-> NoPair]
        ELSE LET base_curr == ticker_from_str(parts[1])
                 quote_curr == quote_from_str(parts[2])
             IN  IF ~base_curr.ok \/ ~quote_curr.ok
                 THEN [ok |-> FALSE, pair |-> NoPair]
                 ELSE [ok |-> TRUE,
                       pair |-> [base |-> base_curr.value,
                                 quote |-> quote_curr.value]]

\* Serialize for TradingPair: "BASE/QUOTE", uppercased
serialize_pair(pair) ==
    to_uppercase(pair.base.id \o <<"/">> \o quote_display(pair.quote))

\* -------------------------------------------------------- Trade as a record
\* Deserialize for Side: any case, surrounding whitespace ignored
deserialize_side(s) ==
    LET u == to_uppercase(trim(s))
    IN  IF u = <<"B", "U", "Y">> THEN [ok |-> TRUE, value |-> Buy]
        ELSE IF u = <<"S", "E", "L", "L">> THEN [ok |-> TRUE, value |-> Sell]
        ELSE [ok |-> FALSE, value |-> Buy]

\* Serialize for Side, rename_all = "UPPERCASE"
serialize_side(side) ==
    IF side = Buy THEN <<"B", "U", "Y">> ELSE <<"S", "E", "L", "L">>

\* ts_seconds::serialize: the whole seconds of the instant
ts_serialize(dt) == dt.secs

\* Serialize for Trade: one CSV record.  An OffsetDateTime is the pair of
\* its unix seconds and its sub-second part.
serialize_trade(trade) ==
    [created_at |-> ts_serialize(trade.created_at),
     pair |-> serialize_pair(trade.pair),
     side |-> serialize_side(trade.side),
     amount |-> trade.amount, price |-> trade.price, fee |-> trade.fee]

\* Deserialize for Trade on one CSV record, read when the clock shows
\* now_epoch; OffsetDateTime::from_unix_timestamp has no sub-second part
trade_from_record(rec, now_epoch) ==
    LET ts == ts_deserialize(rec.created_at, now_epoch)
        pr == deserialize_pair(rec.pair)
        sd == deserialize_side(rec.side)
        a == positive_decimal(rec.amount)
        p == positive_decimal(rec.price)
        f == positive_decimal(rec.fee)
    IN  [ok |-> ts.ok /\ pr.ok /\ sd.ok /\ a.ok /\ p.ok /\ f.ok,
         trade |-> [created_at |-> [secs |-> ts.value, nanos |-> 0],
                    pair |-> pr.pair, side |-> sd.value,
                    amount |-> a.value, price |-> p.value, fee |-> f.value]]

\* the Trade tx_to_csv builds at the instant now; the unwraps panic on a
\* symbol or side that does not parse
tx_to_csv_trade(symbol, side, qty, price, fee, now) ==
    LET pr == deserialize_pair(symbol)
        sd == deserialize_side(side)
    IN  [panic |-> ~pr.ok \/ ~sd.ok,
         trade |-> [created_at |-> now, pair |-> pr.pair, side |-> sd.value,
                    amount |-> qty, price |-> price, fee |-> fee]]

\* ------------------------------------------------------------------- quote
\* rows (id, symbol) of the price source's lookup table, in file order; two
\* coins may carry one symbol
CoinTable == <<[id |-> "bitcoin", symbol |-> <<"b", "t", "c">>],
               [id |-> "ethereum", symbol |-> <<"e", "t", "h">>],
               [id |-> "solana", symbol |-> <<"s", "o", "l">>],
               [id |-> "batcat", symbol |-> <<"b", "t", "c">>]>>

\* symbol_to_id.get(key): collecting the rows into a HashMap keeps the last
\* row of a symbol
symbol_to_id(key) ==
    LET rows == {i \in 1..Len(CoinTable) :
                    to_uppercase(CoinTable[i].symbol) = key}
    IN  IF rows = {} THEN [found |-> FALSE, id |-> ""]
        ELSE [found |-> TRUE,
              id |-> CoinTable[CHOOSE i \in rows : \A j \in rows : j <= i].id]

\* to_ids that walks the table and keeps the rows that were asked for
to_ids_table_order(tickers) ==
    LET asked(i) == \E k \in 1..Len(tickers) :
                       to_uppercase(tickers[k]) = to_uppercase(CoinTable[i].symbol)
        ids == SelectSeq([i \in 1..Len(CoinTable) |-> i], asked)
    IN  [ok |-> TRUE, ids |-> [k \in 1..Len(ids) |-> CoinTable[ids[k]].id],
         err |-> <<>>]

\* to_ids: Err("Ticker not found: t") for the first ticker with no row
to_ids(tickers) ==
    LET missing == {k \in 1..Len(tickers) :
                       ~symbol_to_id(to_uppercase(tickers[k])).found}
    IN  IF missing = {}
        THEN [ok |-> TRUE,
              ids |-> [k \in 1..Len(tickers) |->
                          symbol_to_id(to_uppercase(tickers[k])).id],
              err |-> <<>>]
        ELSE [ok |-> FALSE, ids |-> <<>>,
              err |-> tickers[CHOOSE k \in missing : \A j \in missing : k <= j]]

\* get_quotes up to the request: to_ids(..)? hands the lookup error on; the
\* answer of the price source is fetched
get_quotes(tickers, fetched) ==
    LET r == to_ids(tickers)
    IN  IF ~r.ok THEN [ok |-> FALSE, err |-> r.err]
        ELSE IF ~fetched THEN [ok |-> FALSE, err |-> <<"h", "t", "t", "p">>]
        ELSE [ok |-> TRUE, err |-> <<>>]

\* ------------------------------------------------------------------ report
CryptoCurrencies == {BTC, ETH}

\* the loop of Portfolio::print_unrealized_pnl over the positions of pf: for
\* every Crypto position it prints
\*     balance * quote_usd(currency) - cost_base / cost_base
\* and Decimal division panics on a zero divisor.  The HashMap is walked in
\* no fixed order; lines holds what is printed for the positions the walk
\* can get through.
print_unrealized_pnl(p) ==
    LET crypto == {c \in DOMAIN p : c \in CryptoCurrencies}
        sound == {c \in crypto : p[c].cost_base # 0}
    IN  [done |-> TRUE, err |-> FALSE,
         panic |-> \E c \in crypto : p[c].cost_base = 0,
         lines |-> [c \in sound |->
                      [balance |-> p[c].balance,
                       printed |-> DecMul(p[c].balance, quote_usd(c))
                                     - DecDiv(p[c].cost_base, p[c].cost_base)]]]

\* the deserializing reader over the records of a file, collected: Err on a
\* missing file and on the first record that does not deserialize
read_trades_from_csv(fs, name) ==
    LET recs == fs[name].trades
        bad == {i \in 1..Len(recs) : ~deserialize_trade(recs[i]).ok}
    IN  IF ~fs[name].exists \/ bad # {} THEN [ok |-> FALSE, trades |-> <<>>]
        ELSE [ok |-> TRUE,
              trades |-> [i \in 1..Len(recs) |-> deserialize_trade(recs[i]).trade]]

\* -------------------------------------------------------------- QuoteCache
\* time-to-live of the cached quotes, in seconds
TTL == 60

\* the cache of a process that has fetched nothing yet
QuoteCacheNew == [quotes |-> <<>>, last_updated |-> 0]

\* what the price source answers with: a USD price for every ticker
QuotesAt(price) == [c \in CryptoCurrencies |-> price]

\* get_usd_quotes that refreshes only once the quotes are older than TTL
get_usd_quotes_strict(c, now, universe, fetched, price) ==
    LET r == get_quotes(universe, fetched)
    IN  IF ~(c.quotes = <<>> \/ now - c.last_updated > TTL)
        THEN [fetch |-> FALSE, ok |-> TRUE, result |-> c.quotes, cache |-> c]
        ELSE IF ~r.ok
        THEN [fetch |-> TRUE, ok |-> FALSE, result |-> <<>>, cache |-> c]
        ELSE [fetch |-> TRUE, ok |-> TRUE, result |-> QuotesAt(price),
              cache |-> [quotes |-> QuotesAt(price), last_updated |-> now]]

\* get_usd_quotes that empties the cache when the refresh fails
get_usd_quotes_clear_on_error(c, now, universe, fetched, price) ==
    LET r == get_quotes(universe, fetched)
    IN  IF ~(c.quotes = <<>> \/ now - c.last_updated >= TTL)
        THEN [fetch |-> FALSE, ok |-> TRUE, result |-> c.quotes, cache |-> c]
        ELSE IF ~r.ok
        THEN [fetch |-> TRUE, ok |-> FALSE, result |-> <<>>,
              cache |-> QuoteCacheNew]
        ELSE [fetch |-> TRUE, ok |-> TRUE, result |-> QuotesAt(price),
              cache |-> [quotes |-> QuotesAt(price), last_updated |-> now]]

\* get_usd_quotes at time now: a snapshot of the cache while it is fresh,
\* otherwise a full refresh through get_quotes over the ticker universe; the
\* cached map is replaced only when the whole refresh succeeded
get_usd_quotes(c, now, universe, fetched, price) ==
    LET r == get_quotes(universe, fetched)
    IN  IF ~(c.quotes = <<>> \/ now - c.last_updated >= TTL)
        THEN [fetch |-> FALSE, ok |-> TRUE, result |-> c.quotes, cache |-> c]
        ELSE IF ~r.ok
        THEN [fetch |-> TRUE, ok |-> FALSE, result |-> <<>>, cache |-> c]
        ELSE [fetch |-> TRUE, ok |-> TRUE, result |-> QuotesAt(price),
              cache |-> [quotes |-> QuotesAt(price), last_updated |-> now]]

\* ------------------------------------------------------ portfolio directory
\* trade::new: csv::Writer::from_path creates the file or truncates the one
\* that is there, then the header is written
trade_new(fs, name) ==
    [exit |-> 0,
     files |-> [fs EXCEPT ![name] = [exists |-> TRUE, trades |-> <<>>]]]

\* tx_to_csv: the file is opened for append, expect() panics if it is absent
tx_to_csv(fs, name, rec) ==
    IF ~fs[name].exists THEN [exit |-> 101, files |-> fs]
    ELSE [exit |-> 0,
          files |-> [fs EXCEPT ![name].trades = Append(@, rec)]]

\* ---------------------------------------------------------------- holdings
\* report::Position of a new book entry: (amount, avg_price, total_fees)
BookEntryNew == [amount |-> 0, avg_price |-> 0, fee |-> 0]

\* calc_holdings that takes the price of the last buy as the average
calc_holdings_last_price(book, tx) ==
    LET key == tx.pair.base
        b == IF key \in DOMAIN book THEN book
             ELSE [c \in DOMAIN book \cup {key} |->
                      IF c = key THEN BookEntryNew ELSE book[c]]
        amt == b[key].amount
        prc == b[key].avg_price
        new_amount == IF tx.side = Buy THEN amt + tx.amount
                      ELSE IF tx.amount > amt THEN amt
                      ELSE amt - tx.amount
        new_avg == IF tx.side = Buy THEN tx.price ELSE prc
        new_fee == b[key].fee + tx.fee
    IN  [b EXCEPT ![key] = [amount |-> new_amount, avg_price |-> new_avg,
                            fee |-> new_fee]]

\* calc_holdings: the entry of the base asset after one trade.  An oversell
\* prints a warning and keeps the amount; the fee is added in every case.
calc_holdings(book, tx) ==
    LET key == tx.pair.base
        b == IF key \in DOMAIN book THEN book
             ELSE [c \in DOMAIN book \cup {key} |->
                      IF c = key THEN BookEntryNew ELSE book[c]]
        amt == b[key].amount
        prc == b[key].avg_price
        new_amount == IF tx.side = Buy THEN amt + tx.amount
                      ELSE IF tx.amount > amt THEN amt
                      ELSE amt - tx.amount
        new_avg == IF tx.side = Buy
                   THEN DecDiv(DecMul(amt, prc) + DecMul(tx.amount, tx.price),
                               new_amount)
                   ELSE prc
        new_fee == b[key].fee + tx.fee
    IN  [b EXCEPT ![key] = [amount |-> new_amount, avg_price |-> new_avg,
                            fee |-> new_fee]]

\* the loop of show_holdings: the books after 0, 1, .. n trades
RECURSIVE holdings_trace(_, _)
holdings_trace(book, trades) ==
    IF trades = <<>> THEN <<book>>
    ELSE <<book>> \o holdings_trace(calc_holdings(book, Head(trades)),
                                    Tail(trades))

\* the loop of PairPosition::from_trades from (holding, avg): the first
\* trade of another pair and the first oversell end it with an error
RECURSIVE from_trades_loop(_, _, _, _)
from_trades_loop(pair, holding, avg, trades) ==
    IF trades = <<>> THEN [ok |-> TRUE, holding |-> holding, avg |-> avg]
    ELSE LET tx == Head(trades)
         IN  IF tx.pair # pair
             THEN [ok |-> FALSE, holding |-> holding, avg |-> avg]
             ELSE IF tx.side = Buy
             THEN from_trades_loop(
                      pair, holding + tx.amount,
                      DecDiv(DecMul(holding, avg) + DecMul(tx.amount, tx.price),
                             holding + tx.amount),
                      Tail(trades))
             ELSE IF tx.amount > holding
             THEN [ok |-> FALSE, holding |-> holding, avg |-> avg]
             ELSE from_trades_loop(pair, holding - tx.amount, avg, Tail(trades))

\* PairPosition::new
PairPositionNew(pair) == [pair |-> pair, holdings |-> 0, average_price |-> 0]

\* from_trades that stores what the loop had reached when it failed
from_trades_partial(pos, trades) ==
    LET r == from_trades_loop(pos.pair, 0, 0, trades)
    IN  IF trades = <<>> THEN [ok |-> TRUE, pos |-> pos]
        ELSE [ok |-> r.ok,
              pos |-> [pos EXCEPT !.holdings = r.holding,
                                  !.average_price = r.avg]]

\* PairPosition::from_trades: the position is written only after the loop
from_trades(pos, trades) ==
    LET r == from_trades_loop(pos.pair, 0, 0, trades)
    IN  IF trades = <<>> THEN [ok |-> TRUE, pos |-> pos]
        ELSE IF ~r.ok THEN [ok |-> FALSE, pos |-> pos]
        ELSE [ok |-> TRUE,
              pos |-> [pos EXCEPT !.holdings = r.holding,
                                  !.average_price = r.avg]]

\* ------------------------------------------------------------------- state
VARIABLES
    positions,   \* Portfolio.positions
    pre,         \* positions before the last ledger call
    op,          \* the last ledger call and its arguments
    res,         \* its result: "none", "ok" or "err"
    failed,      \* some add_tx so far returned Err
    steps,       \* number of ledger calls so far
    cost_added,  \* total cost basis the deposits so far have added
    log,         \* the records of the portfolio's CSV file, header excluded
    status,      \* from_csv: "idle", "running", "ok" (returned Ok(pf)), "err"
    idx,         \* from_csv: index of the record the reader is at
    pf,          \* from_csv: the local Portfolio pf
    applied,     \* from_csv: number of records whose exchange was applied
    last_trade,  \* from_csv: the last Trade handed to to_tx
    last_tx,     \* from_csv: the Tx it returned
    call,        \* the last call of a parser or validator: function, input, output
    report,      \* what print_unrealized_pnl did, once it has run
    files,       \* the portfolio directory: for each name, the CSV file
    cmd,         \* the last command run on the directory and its exit code
    cache,       \* QuoteCache: the cached quotes and the time of the refresh
    wall,        \* the wall clock, in seconds since the process started
    qcall        \* the last call of the quote cache and what it did

ledgerVars == <<positions, pre, op, res, failed, steps, cost_added>>
replayVars == <<log, status, idx, pf, applied, last_trade, last_tx>>
reportVars == <<report>>
fileVars == <<files, cmd>>
cacheVars == <<cache, wall, qcall>>
auxVars == <<call, report, files, cmd, cache, wall, qcall>>
vars == <<positions, pre, op, res, failed, steps, cost_added,
          log, status, idx, pf, applied, last_trade, last_tx,
          call, report, files, cmd, cache, wall, qcall>>

NoTx == [buy |-> USD, buy_size |-> 0, sell |-> USD, sell_size |-> 0]
NoOp == [kind |-> "none", currency |-> USD, amount |-> 0, tx |-> NoTx]
NoTrade == [pair |-> [base |-> BTC, quote |-> USD], side |-> Buy,
            amount |-> 0, price |-> 0, fee |-> 0]

NoCall == [fn |-> "none"]

NoReport == [done |-> FALSE, err |-> FALSE, panic |-> FALSE, lines |-> <<>>]

MaxFile == 2

PortfolioNames == {"alpha", "bravo"}

\* no file of that name in the directory
Absent == [exists |-> FALSE, trades |-> <<>>]

NoCmd == [kind |-> "none", name |-> "alpha", exit |-> 0, before |-> Absent,
          rec |-> NoTrade, trades |-> <<>>]

NoQCall == [kind |-> "none", at |-> 0, fetched |-> FALSE, ok |-> TRUE,
            before |-> QuoteCacheNew, result |-> <<>>]

Amounts == {Dec(n) : n \in 1..MaxAmt}

\* The exchanges a Trade can translate to: one leg is the pair's quote (USD
\* or BTC), so the two legs are the same currency only for the pair BTC/BTC.
Txs == {tx \in [buy : Currencies, buy_size : Amounts,
                sell : Currencies, sell_size : Amounts] :
            tx.buy # tx.sell \/ tx.sell = BTC}

\* raw records of a log; amount 0 is a record the validator rejects
Records == [pair : Pairs, side : {Buy, Sell},
            amount : {Dec(0), Dec(1), Dec(2)},
            price : {Dec(1), Dec(2)},
            fee : {Dec(1), Dec(2)}]

Init ==
    /\ positions = PortfolioNew
    /\ pre = PortfolioNew
    /\ op = NoOp
    /\ res = "none"
    /\ failed = FALSE
    /\ steps = 0
    /\ cost_added = 0
    /\ log = <<>>
    /\ status = "idle"
    /\ idx = 0
    /\ pf = PortfolioNew
    /\ applied = 0
    /\ last_trade = NoTrade
    /\ last_tx = NoTx
    /\ call = NoCall
    /\ report = NoReport
    /\ files = [n \in PortfolioNames |-> Absent]
    /\ cmd = NoCmd
    /\ cache = QuoteCacheNew
    /\ wall = 0
    /\ qcall = NoQCall

\* ---------------------------------------------------------- ledger actions
Deposit ==
    /\ steps < MaxSteps
    /\ \E c \in Currencies, a \in Amounts :
          /\ positions' = deposit(positions, c, a)
          /\ op' = [kind |-> "deposit", currency |-> c, amount |-> a, tx |-> NoTx]
          /\ cost_added' = cost_added + deposit(positions, c, a)[c].cost_base
                                       - (IF c \in DOMAIN positions
                                          THEN positions[c].cost_base ELSE 0)
    /\ pre' = positions
    /\ res' = "ok"
    /\ steps' = steps + 1
    /\ UNCHANGED failed
    /\ UNCHANGED replayVars
    /\ UNCHANGED auxVars

AddTx ==
    /\ steps < MaxSteps
    /\ \E tx \in Txs :
          LET r == add_tx(positions, tx)
          IN  /\ positions' = r.positions
              /\ res' = IF r.ok THEN "ok" ELSE "err"
              /\ failed' = (failed \/ ~r.ok)
              /\ op' = [kind |-> "add_tx", currency |-> USD, amount |-> 0, tx |-> tx]
    /\ pre' = positions
    /\ steps' = steps + 1
    /\ UNCHANGED cost_added
    /\ UNCHANGED replayVars
    /\ UNCHANGED auxVars

Next == Deposit \/ AddTx

Spec == Init /\ [][Next]_vars

\* ---------------------------------------------------------- replay actions
\* a record is in the file before the replay starts
WriteRecord ==
    /\ status = "idle"
    /\ Len(log) < MaxLog
    /\ \E rec \in Records : log' = Append(log, rec)
    /\ UNCHANGED <<status, idx, pf, applied, last_trade, last_tx>>
    /\ UNCHANGED ledgerVars
    /\ UNCHANGED auxVars

\* Portfolio::new() and the reader opened on the file
FromCsvBegin ==
    /\ status = "idle"
    /\ status' = "running"
    /\ idx' = 1
    /\ pf' = PortfolioNew
    /\ UNCHANGED <<log, applied, last_trade, last_tx>>
    /\ UNCHANGED ledgerVars
    /\ UNCHANGED auxVars

\* one iteration of the loop: result?, the deposit, add_tx(to_tx)?
FromCsvRecord ==
    /\ status = "running"
    /\ idx <= Len(log)
    /\ LET d == deserialize_trade(log[idx])
           r == from_csv_record(pf, log[idx])
       IN  /\ pf' = r.positions
           /\ status' = IF r.ok THEN "running" ELSE "err"
           /\ idx' = IF r.ok THEN idx + 1 ELSE idx
           /\ applied' = IF r.ok THEN applied + 1 ELSE applied
           /\ last_trade' = IF d.ok THEN d.trade ELSE last_trade
           /\ last_tx' = IF d.ok THEN to_tx(d.trade) ELSE last_tx
    /\ UNCHANGED log
    /\ UNCHANGED ledgerVars
    /\ UNCHANGED auxVars

\* the reader is exhausted: Ok(pf)
FromCsvEnd ==
    /\ status = "running"
    /\ idx > Len(log)
    /\ status' = "ok"
    /\ UNCHANGED <<log, idx, pf, applied, last_trade, last_tx>>
    /\ UNCHANGED ledgerVars
    /\ UNCHANGED auxVars

NextReplay == WriteRecord \/ FromCsvBegin \/ FromCsvRecord \/ FromCsvEnd

SpecReplay == Init /\ [][NextReplay]_vars

\* ------------------------------------------------- parser and validator calls
\* Each behaviour of SpecPure is one call of one function on one input.
MaxClock == 3

\* readings of the wall clock, in seconds since the epoch
Clock == {MIN_TIMESTAMP + k : k \in 0..MaxClock}

\* timestamps offered to the validator
Timestamps == {MIN_TIMESTAMP + k : k \in (0 - 2)..(MaxClock + 2)}

Pads == {<<>>, <<" ">>, <<" ", " ">>, <<"\t">>}

Words == {<<"u", "s", "d">>,
          <<"U", "S", "D">>,
          <<"U", "s", "D">>,
          <<"b", "t", "c">>,
          <<"e", "t", "h">>,
          <<"s">>,
          <<"M">>,
          <<"u", "s", "d", "c">>,
          <<"d", "a", "i">>,
          <<"x", "y", "z">>,
          <<"u", " ", "s", "d">>,
          <<>>}

\* ticker strings offered to Currency: a word with whitespace around it
TickerInputs == {a \o w \o b : a \in Pads, w \in Words, b \in Pads}

ValidateTimestamp ==
    /\ call = NoCall
    /\ \E ts \in Timestamps, now_epoch \in Clock :
          call' = [fn |-> "ts_seconds", ts |-> ts, now |-> now_epoch,
                   out |-> ts_deserialize(ts, now_epoch)]
    /\ UNCHANGED <<ledgerVars, replayVars, reportVars, fileVars, cacheVars>>

NormalizeTicker ==
    /\ call = NoCall
    /\ \E t \in TickerInputs :
          call' = [fn |-> "normalize_ticker", input |-> t,
                   out |-> normalize_ticker(t)]
    /\ UNCHANGED <<ledgerVars, replayVars, reportVars, fileVars, cacheVars>>

CurrencyNew ==
    /\ call = NoCall
    /\ \E t \in TickerInputs :
          LET r == currency_new(t)
          IN  call' = [fn |-> "Currency::new", input |-> t, out |-> r,
                       valid |-> is_valid(t),
                       type |-> IF r.ok THEN currency_type(r.currency)
                                ELSE [panic |-> FALSE, type |-> "None"]]
    /\ UNCHANGED <<ledgerVars, replayVars, reportVars, fileVars, cacheVars>>

\* two Currency values built and compared with ==
CurrencyEq ==
    /\ call = NoCall
    /\ \E a \in TickerInputs, b \in TickerInputs :
          call' = [fn |-> "Currency::eq", a |-> a, b |-> b,
                   ca |-> currency_new(a), cb |-> currency_new(b)]
    /\ UNCHANGED <<ledgerVars, replayVars, reportVars, fileVars, cacheVars>>

\* numeric fields of a raw record: negative, zero and positive
RawValues == {Dec(0 - 1), Dec(0), Dec(1), Dec(2)}

RawRecords == [pair : Pairs, side : {Buy, Sell},
               amount : RawValues, price : RawValues, fee : RawValues]

DeserializeTrade ==
    /\ call = NoCall
    /\ \E rec \in RawRecords :
          call' = [fn |-> "deserialize_trade", rec |-> rec,
                   out |-> deserialize_trade(rec)]
    /\ UNCHANGED <<ledgerVars, replayVars, reportVars, fileVars, cacheVars>>

\* the pieces a pair text is put together from
PairParts == {<<>>,
              <<"b", "t", "c">>,
              <<"B", "T", "C">>,
              <<"E", "t", "h">>,
              <<"u", "s", "d">>,
              <<"U", "S", "D">>,
              <<" ">>,
              <<"x", "y", "z">>,
              <<"u", "s", "d", "t">>,
              <<"d", "a", "i">>}

\* pair texts with no, one and two separators
PairInputs ==
    PairParts
        \cup {a \o <<"/">> \o b : a \in PairParts, b \in PairParts}
        \cup {a \o <<"/">> \o b \o <<"/">> \o c :
                 a \in PairParts, b \in PairParts, c \in PairParts}

DeserializePair ==
    /\ call = NoCall
    /\ \E s \in PairInputs :
          call' = [fn |-> "deserialize_pair", input |-> s,
                   out |-> deserialize_pair(s)]
    /\ UNCHANGED <<ledgerVars, replayVars, reportVars, fileVars, cacheVars>>

\* sub-second part of an instant, in milliseconds
SubSeconds == {0, 500}

Symbols == {<<"b", "t", "c", "/", "u", "s", "d">>,
            <<"E", "T", "H", "/", "B", "T", "C">>}

SideTexts == {<<"b", "u", "y">>, <<"S", "E", "L", "L">>}

\* add-tx builds a Trade and appends it; the log is read back later
RoundTripAddTx ==
    /\ call = NoCall
    /\ \E symbol \in Symbols, side \in SideTexts,
          qty \in RawValues, price \in RawValues, fee \in RawValues,
          secs \in Clock, nanos \in SubSeconds, later \in Clock :
          LET b == tx_to_csv_trade(symbol, side, qty, price, fee,
                                   [secs |-> secs, nanos |-> nanos])
              rec == serialize_trade(b.trade)
          IN  /\ later >= secs
              /\ ~b.panic
              /\ call' = [fn |-> "roundtrip", src |-> "add-tx",
                          trade |-> b.trade, rec |-> rec,
                          back |-> trade_from_record(rec, later)]
    /\ UNCHANGED <<ledgerVars, replayVars, reportVars, fileVars, cacheVars>>

\* a Trade read from a log is written out and read back later
RoundTripParsed ==
    /\ call = NoCall
    /\ \E symbol \in Symbols, side \in SideTexts,
          qty \in RawValues, price \in RawValues, fee \in RawValues,
          ts \in Timestamps, now_epoch \in Clock, later \in Clock :
          LET t == trade_from_record(
                       [created_at |-> ts, pair |-> symbol, side |-> side,
                        amount |-> qty, price |-> price, fee |-> fee],
                       now_epoch)
              rec == serialize_trade(t.trade)
          IN  /\ later >= now_epoch
              /\ t.ok
              /\ call' = [fn |-> "roundtrip", src |-> "log",
                          trade |-> t.trade, rec |-> rec,
                          back |-> trade_from_record(rec, later)]
    /\ UNCHANGED <<ledgerVars, replayVars, reportVars, fileVars, cacheVars>>

MaxReq == 3

TickerTexts == {<<"b", "t", "c">>, <<"B", "T", "C">>, <<"E", "t", "h">>, <<"s", "o", "l">>, <<"a", "a", "a">>}

\* requests of up to MaxReq tickers
Requests == UNION {[1..n -> TickerTexts] : n \in 0..MaxReq}

ToIds ==
    /\ call = NoCall
    /\ \E tickers \in Requests, fetched \in BOOLEAN :
          call' = [fn |-> "to_ids", tickers |-> tickers,
                   out |-> to_ids(tickers),
                   quotes |-> get_quotes(tickers, fetched)]
    /\ UNCHANGED <<ledgerVars, replayVars, reportVars, fileVars, cacheVars>>

NextPure ==
    \/ ValidateTimestamp
    \/ NormalizeTicker
    \/ CurrencyNew
    \/ CurrencyEq
    \/ DeserializeTrade
    \/ DeserializePair
    \/ RoundTripAddTx
    \/ RoundTripParsed
    \/ ToIds

SpecPure == Init /\ [][NextPure]_vars

\* ------------------------------------------------------------ report command
\* Cmd::Report: Portfolio::from_csv(path)? and then the loop over positions
PrintUnrealizedPnl ==
    /\ status \in {"ok", "err"}
    /\ report = NoReport
    /\ report' = IF status = "err"
                 THEN [done |-> TRUE, err |-> TRUE, panic |-> FALSE,
                       lines |-> <<>>]
                 ELSE print_unrealized_pnl(pf)
    /\ UNCHANGED <<ledgerVars, replayVars, call, fileVars, cacheVars>>

NextReport == NextReplay \/ PrintUnrealizedPnl

SpecReport == Init /\ [][NextReport]_vars

\* ------------------------------------------------- commands on the directory
\* records appended by add-tx
FileRecords == {rec \in Records :
                   /\ rec.pair = [base |-> BTC, quote |-> USD]
                   /\ rec.side = Buy
                   /\ rec.amount \in {Dec(0), Dec(1)}
                   /\ rec.price = Dec(1)}

\* Cmd::New
CmdNew ==
    /\ \E name \in PortfolioNames :
          LET r == trade_new(files, name)
          IN  /\ files' = r.files
              /\ cmd' = [kind |-> "new", name |-> name, exit |-> r.exit,
                         before |-> files[name], rec |-> NoTrade,
                         trades |-> <<>>]
    /\ UNCHANGED <<ledgerVars, replayVars, call, reportVars, cacheVars>>

\* Cmd::AddTx
CmdAddTx ==
    /\ \E name \in PortfolioNames, rec \in FileRecords :
          LET r == tx_to_csv(files, name, rec)
          IN  /\ Len(files[name].trades) < MaxFile
              /\ files' = r.files
              /\ cmd' = [kind |-> "add-tx", name |-> name, exit |-> r.exit,
                         before |-> files[name], rec |-> rec,
                         trades |-> <<>>]
    /\ UNCHANGED <<ledgerVars, replayVars, call, reportVars, cacheVars>>

\* Cmd::Show: the trades of the file are read and printed
CmdShow ==
    /\ \E name \in PortfolioNames :
          LET r == read_trades_from_csv(files, name)
          IN  cmd' = [kind |-> "show", name |-> name,
                      exit |-> IF r.ok THEN 0 ELSE 1,
                      before |-> files[name], rec |-> NoTrade,
                      trades |-> r.trades]
    /\ UNCHANGED files
    /\ UNCHANGED <<ledgerVars, replayVars, call, reportVars, cacheVars>>

NextFile == CmdNew \/ CmdAddTx \/ CmdShow

SpecFile == Init /\ [][NextFile]_vars

\* ------------------------------------------------------------ quote cache
MaxWall == 125

\* seconds that pass between two calls
Waits == {29, 30}

\* the ticker universes a refresh asks for: one resolves, one does not
Universes == {<<<<"b", "t", "c">>, <<"e", "t", "h">>>>,
              <<<<"b", "t", "c">>, <<"a", "a", "a">>>>}

Prices == {Dec(1), Dec(2)}

\* time passes
Tick ==
    /\ \E d \in Waits :
          /\ wall + d <= MaxWall
          /\ wall' = wall + d
    /\ UNCHANGED <<cache, qcall>>
    /\ UNCHANGED <<ledgerVars, replayVars, call, reportVars, fileVars>>

\* one call of get_usd_quotes
GetUsdQuotes ==
    /\ \E universe \in Universes, fetched \in BOOLEAN, price \in Prices :
          LET r == get_usd_quotes(cache, wall, universe, fetched, price)
          IN  /\ cache' = r.cache
              /\ qcall' = [kind |-> "get_usd_quotes", at |-> wall,
                           fetched |-> r.fetch, ok |-> r.ok,
                           before |-> cache, result |-> r.result]
    /\ UNCHANGED wall
    /\ UNCHANGED <<ledgerVars, replayVars, call, reportVars, fileVars>>

NextCache == Tick \/ GetUsdQuotes

SpecCache == Init /\ [][NextCache]_vars

\* ------------------------------------------------------- holdings per asset
MaxTrades == 3

\* validated trades of two pairs
HoldingTrades == [pair : {[base |-> BTC, quote |-> USD],
                          [base |-> ETH, quote |-> BTC]},
                  side : {Buy, Sell},
                  amount : {Dec(1), Dec(2)},
                  price : {Dec(1), Dec(2)},
                  fee : {Dec(1)}]

TradeLists == UNION {[1..n -> HoldingTrades] : n \in 0..MaxTrades}

\* positions from_trades is called on: a new one and one that holds values
PairPositions == {PairPositionNew([base |-> BTC, quote |-> USD]),
                  [pair |-> [base |-> BTC, quote |-> USD],
                   holdings |-> Dec(1), average_price |-> Dec(2)]}

\* show_holdings: calc_holdings folded over the trades of the log
ShowHoldings ==
    /\ call = NoCall
    /\ \E trades \in TradeLists :
          call' = [fn |-> "show_holdings", trades |-> trades,
                   halted |-> FALSE,
                   books |-> holdings_trace(<<>>, trades)]
    /\ UNCHANGED <<ledgerVars, replayVars, reportVars, fileVars, cacheVars>>

FromTrades ==
    /\ call = NoCall
    /\ \E pos \in PairPositions, trades \in TradeLists :
          call' = [fn |-> "from_trades", pos |-> pos, trades |-> trades,
                   out |-> from_trades(pos, trades)]
    /\ UNCHANGED <<ledgerVars, replayVars, reportVars, fileVars, cacheVars>>

\* both computations on the trades of one log
HoldingsAndPosition ==
    /\ call = NoCall
    /\ \E trades \in TradeLists :
          LET pair == [base |-> BTC, quote |-> USD]
              trace == holdings_trace(<<>>, trades)
          IN  call' = [fn |-> "holdings_and_position", trades |-> trades,
                       pair |-> pair,
                       book |-> trace[Len(trace)],
                       out |-> from_trades(PairPositionNew(pair), trades)]
    /\ UNCHANGED <<ledgerVars, replayVars, reportVars, fileVars, cacheVars>>

NextHoldings == ShowHoldings \/ FromTrades \/ HoldingsAndPosition

SpecHoldings == Init /\ [][NextHoldings]_vars

\* ======================================================== ledger claims ==
IsAddTx == op.kind = "add_tx"
IsDeposit == op.kind = "deposit"

\* balance and cost_base of a currency in a map, 0 when it has no position
Bal(p, c) == IF c \in DOMAIN p THEN p[c].balance ELSE 0
Cb(p, c) == IF c \in DOMAIN p THEN p[c].cost_base ELSE 0

\* every position of p is in q with the same balance and cost_base
Kept(p, q) == \A c \in DOMAIN p : c \in DOMAIN q /\ q[c] = p[c]

\* C1: add_tx with sell_size greater than the sell currency's balance
\* returns an error, and every position that existed before the call has the
\* same balance and cost_base after it.
C1_OversellRejected ==
    (IsAddTx /\ Bal(pre, op.tx.sell) < op.tx.sell_size)
        => (res = "err" /\ Kept(pre, positions))

\* an oversell of a position that holds something
C1_Witness ==
    /\ IsAddTx
    /\ op.tx.sell \in DOMAIN pre
    /\ pre[op.tx.sell].balance > 0
    /\ pre[op.tx.sell].balance < op.tx.sell_size
    /\ res = "err"

\* C2: a failing add_tx leaves the positions map identical to the map before
\* the call, its set of keys included.
C2_FailureIsNoOp ==
    (IsAddTx /\ res = "err") => positions = pre

\* C3: while no add_tx has returned an error, every position has
\* balance >= 0 and cost_base >= 0.
C3_NonNegative ==
    ~failed => \A c \in DOMAIN positions :
                  positions[c].balance >= 0 /\ positions[c].cost_base >= 0

\* C4: a successful add_tx selling s <= b units of a non-USD position with
\* balance b > 0 and cost_base c leaves it with balance b - s and cost_base
\* c * (b - s) / b.  The claim is stated for an exchange between two
\* different currencies and the quotient is taken at the precision of the
\* decimal type.
C4_ProportionalSell ==
    (/\ IsAddTx
     /\ res = "ok"
     /\ op.tx.sell # USD
     /\ op.tx.sell # op.tx.buy
     /\ Bal(pre, op.tx.sell) > 0)
        => LET b == pre[op.tx.sell].balance
               c == pre[op.tx.sell].cost_base
               s == op.tx.sell_size
           IN  /\ positions[op.tx.sell].balance = b - s
               /\ positions[op.tx.sell].cost_base = DecDiv(DecMul(c, b - s), b)

C6_SoldOutIsZero ==
    /\ DOMAIN pre \subseteq DOMAIN positions
    /\ (/\ IsAddTx
        /\ res = "ok"
        /\ op.tx.sell # op.tx.buy
        /\ Bal(pre, op.tx.sell) = op.tx.sell_size)
          => positions[op.tx.sell] = [balance |-> 0, cost_base |-> 0]

\* C7: deposit creates the position if absent, adds amount to its balance,
\* adds amount (USD) or amount * quote (otherwise) to its cost_base, always
\* succeeds, and leaves every other position unchanged.
C7_Deposit ==
    IsDeposit
        => LET c == op.currency
               a == op.amount
           IN  /\ res = "ok"
               /\ DOMAIN positions = DOMAIN pre \cup {c}
               /\ positions[c].balance = Bal(pre, c) + a
               /\ positions[c].cost_base =
                     Cb(pre, c) + (IF c = USD THEN a ELSE DecMul(a, quote_usd(c)))
               /\ \A k \in DOMAIN pre \ {c} : positions[k] = pre[k]

\* a first deposit of a non-USD currency next to an existing position
C7_Witness ==
    /\ IsDeposit
    /\ op.currency = BTC
    /\ BTC \notin DOMAIN pre
    /\ DOMAIN pre # {}

\* ======================================================== replay claims ==
\* C8: to_tx maps a Buy trade to Tx{buy: base, buy_size: amount, sell: quote,
\* sell_size: amount*price + fee} and a Sell trade to Tx{buy: quote,
\* buy_size: amount*price - fee, sell: base, sell_size: amount}.
C8_ToTx ==
    last_trade # NoTrade
        => LET t == last_trade
               notional == DecMul(t.amount, t.price)
           IN  /\ t.side = Buy =>
                     last_tx = [buy |-> t.pair.base, buy_size |-> t.amount,
                                sell |-> t.pair.quote, sell_size |-> notional + t.fee]
               /\ t.side = Sell =>
                     last_tx = [buy |-> t.pair.quote, buy_size |-> notional - t.fee,
                                sell |-> t.pair.base, sell_size |-> t.amount]

\* a Sell trade was translated
C8_Witness ==
    /\ last_trade # NoTrade
    /\ last_trade.side = Sell
    /\ last_trade.price > Dec(1)

\* add_tx(to_tx(trade)) folded over the records of a log from position i on
RECURSIVE FoldAddTx(_, _, _)
FoldAddTx(p, records, i) ==
    IF i > Len(records) THEN [ok |-> TRUE, positions |-> p]
    ELSE LET d == deserialize_trade(records[i])
             r == add_tx(p, to_tx(d.trade))
         IN  IF ~d.ok THEN [ok |-> FALSE, positions |-> p]
             ELSE IF ~r.ok THEN r
             ELSE FoldAddTx(r.positions, records, i + 1)

\* C9: the portfolio from_csv returns is the one obtained by folding
\* add_tx(to_tx(trade)) over the log from an empty portfolio.
C9_ReplayIsFold ==
    status = "ok"
        => LET f == FoldAddTx(PortfolioNew, log, 1)
           IN  f.ok /\ f.positions = pf

\* C10: replay aborts on the first failing record: an Err return stands at a
\* record that failed validation or whose sell leg lacked the balance, with
\* every earlier record applied and nothing after it; an Ok return means
\* every record passed and was applied; after the Err nothing more happens.
C10_State ==
    /\ status = "err" =>
          /\ idx \in 1..Len(log)
          /\ applied = idx - 1
          /\ LET d == deserialize_trade(log[idx])
                 tx == to_tx(d.trade)
             IN  \/ ~d.ok
                 \/ Bal(pf, tx.sell) < tx.sell_size
    /\ status = "ok" =>
          /\ applied = Len(log)
          /\ \A i \in 1..Len(log) : deserialize_trade(log[i]).ok

C10_AbortOnFirstFailure ==
    /\ []C10_State
    /\ [][status = "err" => UNCHANGED replayVars]_vars

\* the replay stopped at a bad record with a record still behind it
C10_Witness ==
    /\ status = "err"
    /\ idx < Len(log)
    /\ deserialize_trade(log[idx + 1]).ok

\* ======================================================= validator claims ==
\* C11 as written: the timestamp validator accepts the floor, rejects
\* floor - 1, and rejects every timestamp t with t >= now.
C11_Original ==
    call.fn = "ts_seconds"
        => /\ (call.ts = MIN_TIMESTAMP /\ call.ts < call.now) => call.out.ok
           /\ call.ts = MIN_TIMESTAMP - 1 => ~call.out.ok
           /\ call.ts >= call.now => ~call.out.ok

\* C11 amended: the validator accepts exactly the timestamps t with
\* floor <= t <= now: the floor is accepted, floor - 1 is rejected, every
\* t > now is rejected and t = now is accepted.
C11_TimestampBounds ==
    call.fn = "ts_seconds"
        => /\ call.out.ok <=> (MIN_TIMESTAMP <= call.ts /\ call.ts <= call.now)
           /\ call.ts = MIN_TIMESTAMP - 1 => ~call.out.ok
           /\ call.ts > call.now => ~call.out.ok
           /\ call.out.ok => call.out.value = call.ts

\* the floor itself was offered and accepted
C11_Witness ==
    /\ call.fn = "ts_seconds"
    /\ call.ts = MIN_TIMESTAMP
    /\ call.now > MIN_TIMESTAMP
    /\ call.out.ok

\* number of allow-lists a ticker is in
ListsHolding(t) ==
    (IF t \in FIAT THEN 1 ELSE 0) + (IF t \in STABLES THEN 1 ELSE 0)
        + (IF t \in CRYPTO THEN 1 ELSE 0)

\* C15: the three allow-lists are pairwise disjoint; Currency::new succeeds
\* exactly for a ticker whose normalized form is in exactly one list, exactly
\* when is_valid is true, the value it builds holds that normalized form, and
\* currency_type of a constructed Currency never fails.
C15_CurrencyExists ==
    /\ FIAT \cap STABLES = {}
    /\ FIAT \cap CRYPTO = {}
    /\ STABLES \cap CRYPTO = {}
    /\ call.fn = "Currency::new"
          => LET t == to_uppercase(trim(call.input))
             IN  /\ call.out.ok <=> ListsHolding(t) = 1
                 /\ call.out.ok <=> call.valid
                 /\ call.out.ok =>
                       /\ call.out.currency.ticker = t
                       /\ ~call.type.panic

\* a ticker that needed normalizing was accepted
C15_Witness ==
    /\ call.fn = "Currency::new"
    /\ call.out.ok
    /\ call.out.currency.ticker # call.input

\* C16: normalize_ticker is idempotent, and two Currency values built from
\* inputs with the same normalized form are equal.
C16_NormalizeIdempotent ==
    /\ call.fn = "normalize_ticker" => normalize_ticker(call.out) = call.out
    /\ (/\ call.fn = "Currency::eq"
        /\ call.ca.ok
        /\ call.cb.ok
        /\ normalize_ticker(call.a) = normalize_ticker(call.b))
          => call.ca.currency = call.cb.currency

\* two different spellings of one ticker gave equal currencies
C16_Witness ==
    /\ call.fn = "Currency::eq"
    /\ call.a # call.b
    /\ call.ca.ok
    /\ call.cb.ok
    /\ call.ca.currency = call.cb.currency

\* C12: a trade record is admitted only if amount, price and fee are each
\* strictly greater than zero; a record with any of the three zero or
\* negative is rejected, so every parsed Trade has amount, price, fee > 0.
C12_PositiveFields ==
    call.fn = "deserialize_trade"
        => /\ call.out.ok <=>
                 (call.rec.amount > 0 /\ call.rec.price > 0 /\ call.rec.fee > 0)
           /\ call.out.ok =>
                 /\ call.out.trade.amount > 0
                 /\ call.out.trade.price > 0
                 /\ call.out.trade.fee > 0

\* a record whose only fault is fee = 0 was rejected
C12_Witness ==
    /\ call.fn = "deserialize_trade"
    /\ call.rec.amount > 0
    /\ call.rec.price > 0
    /\ call.rec.fee = 0
    /\ ~call.out.ok

\* the quote texts QuoteCurrency accepts
AcceptedQuotes == {<<"U", "S", "D">>, <<"B", "T", "C">>}

C14_RoundTrip ==
    call.fn = "roundtrip"
        => /\ call.back.ok
           /\ call.back.trade = call.trade

\* the lookup table has a row for the ticker, whatever its case
InTable(t) ==
    \E i \in 1..Len(CoinTable) :
        to_uppercase(CoinTable[i].symbol) = to_uppercase(t)

\* C19: ticker-to-id resolution is all-or-nothing: if a requested ticker has
\* no row, to_ids (and so get_quotes) fails with an error naming a missing
\* ticker and returns no ids; otherwise it returns exactly one id per
\* requested ticker, in request order, matching symbols whatever their case.
C19_ToIds ==
    call.fn = "to_ids"
        => LET tickers == call.tickers
               n == Len(tickers)
           IN  IF \E k \in 1..n : ~InTable(tickers[k])
               THEN /\ ~call.out.ok
                    /\ call.out.ids = <<>>
                    /\ \E k \in 1..n :
                          /\ call.out.err = tickers[k]
                          /\ ~InTable(tickers[k])
                    /\ ~call.quotes.ok
                    /\ call.quotes.err = call.out.err
               ELSE /\ call.out.ok
                    /\ Len(call.out.ids) = n
                    /\ \A k \in 1..n :
                          \E i \in 1..Len(CoinTable) :
                              /\ CoinTable[i].id = call.out.ids[k]
                              /\ to_uppercase(CoinTable[i].symbol)
                                     = to_uppercase(tickers[k])

\* a mixed-case request in other than table order was resolved
C19_Witness ==
    /\ call.fn = "to_ids"
    /\ call.tickers = <<<<"s", "o", "l">>, <<"E", "t", "h">>>>
    /\ call.out.ok
    /\ call.out.ids = <<"solana", "ethereum">>

\* ========================================================== report claims ==
\* C17: for every position it reports, the report prints
\* pnl_percent = (balance * quote - cost_base) / cost_base * 100, and it
\* reports exactly the non-valuation-currency positions with nonzero balance.
C17_ReportFormula ==
    (report.done /\ ~report.err /\ ~report.panic)
        => /\ DOMAIN report.lines
                 = {c \in DOMAIN pf : c # USD /\ pf[c].balance # 0}
           /\ \A c \in DOMAIN report.lines :
                 LET value == DecMul(pf[c].balance, quote_usd(c))
                     pnl == value - pf[c].cost_base
                 IN  report.lines[c].printed
                         = DecMul(DecDiv(pnl, pf[c].cost_base), Dec(100))

\* C18: the report of a portfolio replayed from a valid trade log completes
\* without an arithmetic fault, also when a position was sold down to
\* balance 0 and cost_base 0.
C18_NoArithmeticFault ==
    (report.done /\ status = "ok") => ~report.panic

\* ======================================================= directory claims ==
\* C20: creating a portfolio whose log file already exists fails with a
\* non-zero exit and leaves the file's contents unchanged.
C20_NewKeepsExisting ==
    (cmd.kind = "new" /\ cmd.before.exists)
        => /\ cmd.exit # 0
           /\ files[cmd.name] = cmd.before

\* =========================================================== cache claims ==
\* C21: the quote cache refreshes exactly when it is empty or
\* now - last_updated >= 60 seconds; a call made less than 60 seconds after
\* the last successful refresh performs no fetch and returns a snapshot of
\* the cached map, which stays unchanged.
C21_RefreshWhenStale ==
    qcall.kind = "get_usd_quotes"
        => LET stale == \/ qcall.before.quotes = <<>>
                        \/ qcall.at - qcall.before.last_updated >= 60
           IN  /\ qcall.fetched <=> stale
               /\ ~stale => /\ qcall.ok
                            /\ qcall.result = qcall.before.quotes
                            /\ cache = qcall.before

\* a call 59 seconds after a refresh was served from the cache
C21_Witness ==
    /\ qcall.kind = "get_usd_quotes"
    /\ qcall.before.quotes # <<>>
    /\ qcall.at - qcall.before.last_updated = 59
    /\ ~qcall.fetched

\* C22: a refresh is all-or-nothing: when the fetch or the id resolution
\* fails the cached map and last_updated keep their previous values and the
\* caller gets the error; a failed first fetch leaves the cache empty.
C22_RefreshAllOrNothing ==
    (qcall.kind = "get_usd_quotes" /\ qcall.fetched)
        => /\ ~qcall.ok => /\ cache = qcall.before
                           /\ qcall.result = <<>>
           /\ qcall.ok => /\ cache.quotes = qcall.result
                          /\ cache.quotes # <<>>
                          /\ cache.last_updated = qcall.at

\* a refresh of a filled, stale cache failed
C22_Witness ==
    /\ qcall.kind = "get_usd_quotes"
    /\ qcall.fetched
    /\ ~qcall.ok
    /\ qcall.before.quotes # <<>>
    /\ cache = qcall.before

\* C23: the trade log is append-only under add-tx: a successful add-tx
\* appends exactly one record after the existing ones and leaves the earlier
\* records as they were, and reading the log after n successful add-tx calls
\* gives the n added trades in the order they were added.
C23_AppendOnly ==
    /\ (cmd.kind = "add-tx" /\ cmd.exit = 0)
          => files[cmd.name].trades = Append(cmd.before.trades, cmd.rec)
    /\ (cmd.kind = "show" /\ cmd.before.exists)
          => /\ cmd.exit = 0
             /\ cmd.trades = files[cmd.name].trades

\* ======================================================== holdings claims ==
\* amount of the asset held before trade i of the fold
HeldBefore(i) ==
    LET b == call.books[i]
        key == call.trades[i].pair.base
    IN  IF key \in DOMAIN b THEN b[key].amount ELSE 0

\* trade i of the fold sells more than is held
Oversell(i) ==
    call.trades[i].side = Sell /\ call.trades[i].amount > HeldBefore(i)

\* C24: the holdings computation never skips an oversell and carries on: a
\* SELL above the accumulated holdings halts it with an error, and amount,
\* average price and accumulated fee are not updated for that trade.
C24_OversellHalts ==
    call.fn = "show_holdings"
        => \A i \in 1..Len(call.trades) :
              Oversell(i)
                  => /\ call.halted
                     /\ \A c \in DOMAIN call.books[i] :
                           call.books[i + 1][c] = call.books[i][c]

\* the holdings of the list's pair after the first k trades, with no
\* failure among them
RECURSIVE HeldAfter(_, _, _)
HeldAfter(pair, trades, k) ==
    IF k = 0 THEN 0
    ELSE IF trades[k].side = Buy
    THEN HeldAfter(pair, trades, k - 1) + trades[k].amount
    ELSE HeldAfter(pair, trades, k - 1) - trades[k].amount

\* trade k is the first that from_trades must refuse
Refused(pair, trades, k) ==
    \/ trades[k].pair # pair
    \/ trades[k].side = Sell /\ trades[k].amount > HeldAfter(pair, trades, k - 1)

FirstRefused(pair, trades) ==
    {k \in 1..Len(trades) :
        /\ Refused(pair, trades, k)
        /\ \A j \in 1..(k - 1) : ~Refused(pair, trades, j)}

\* C25: from_trades returns an error when a trade is of another pair or a
\* SELL exceeds the holdings accumulated so far in the list; whenever it
\* returns an error holdings and average_price are what they were before the
\* call; on success holdings >= 0.
C25_FromTrades ==
    call.fn = "from_trades"
        => /\ ~call.out.ok <=> FirstRefused(call.pos.pair, call.trades) # {}
           /\ ~call.out.ok => call.out.pos = call.pos
           /\ call.out.ok =>
                 /\ call.out.pos.holdings >= 0
                 /\ call.out.pos.pair = call.pos.pair
                 /\ call.trades # <<>> =>
                       call.out.pos.holdings
                           = HeldAfter(call.pos.pair, call.trades,
                                       Len(call.trades))

\* an oversell after a buy left a position that held values untouched
C25_Witness ==
    /\ call.fn = "from_trades"
    /\ call.pos.holdings > 0
    /\ Len(call.trades) >= 2
    /\ call.trades[1].side = Buy
    /\ call.trades[1].pair = call.pos.pair
    /\ ~call.out.ok
    /\ call.out.pos = call.pos

\* C30: for a list of trades of one pair in which no SELL exceeds the
\* holdings so far, folding calc_holdings from an empty book gives the same
\* holdings and average price for the asset as from_trades on a new
\* position; for the empty list the book has no entry and the position is 0.
C30_HoldingsAgree ==
    (/\ call.fn = "holdings_and_position"
     /\ FirstRefused(call.pair, call.trades) = {})
        => /\ call.out.ok
           /\ IF call.trades = <<>>
              THEN /\ call.book = <<>>
                   /\ call.out.pos.holdings = 0
                   /\ call.out.pos.average_price = 0
              ELSE /\ DOMAIN call.book = {call.pair.base}
                   /\ call.book[call.pair.base].amount = call.out.pos.holdings
                   /\ call.book[call.pair.base].avg_price
                          = call.out.pos.average_price

\* two buys at different prices, then a sell, agreed on a weighted average
C30_Witness ==
    /\ call.fn = "holdings_and_position"
    /\ Len(call.trades) = 3
    /\ call.trades[1].side = Buy
    /\ call.trades[2].side = Buy
    /\ call.trades[1].price # call.trades[2].price
    /\ call.trades[3].side = Sell
    /\ call.out.ok
    /\ call.out.pos.holdings > 0
    /\ call.book[call.pair.base].avg_price = call.out.pos.average_price
    /\ call.out.pos.average_price # call.trades[1].price
    /\ call.out.pos.average_price # call.trades[2].price

\* ===================================================== cost basis claims ==
\* sum of cost_base over the positions of a map
RECURSIVE CostOver(_, _)
CostOver(p, cs) ==
    IF cs = {} THEN 0
    ELSE LET c == CHOOSE x \in cs : TRUE
         IN  p[c].cost_base + CostOver(p, cs \ {c})

TotalCost(p) == CostOver(p, DOMAIN p)

\* C26: every successful add_tx leaves the sum of cost_base over all
\* positions unchanged, so after any sequence of deposits and successful
\* exchanges the sum equals the total cost basis the deposits added.
C26_CostConserved ==
    /\ (IsAddTx /\ res = "ok") => TotalCost(positions) = TotalCost(pre)
    /\ TotalCost(positions) = cost_added

\* cost moved out of a non-USD position at a rounded average cost
C26_Witness ==
    /\ IsAddTx
    /\ res = "ok"
    /\ op.tx.sell = BTC
    /\ op.tx.buy # BTC
    /\ Cb(pre, BTC) > 0
    /\ Cb(positions, op.tx.buy) > Cb(pre, op.tx.buy)
    /\ op.tx.sell_size < Bal(pre, BTC)

\* C27: in every state reached by deposits and successful add_tx calls the
\* USD position's cost_base equals its balance, also after USD came in from
\* the sale of an asset at a price other than its average cost.
C27_UsdOneToOne ==
    (~failed /\ USD \in DOMAIN positions)
        => positions[USD].cost_base = positions[USD].balance

\* ====================================================== admission claims ==
\* C28: for every Trade the validator admits (amount, price, fee > 0) to_tx
\* gives a Tx with sell_size > 0 and buy_size > 0, also for a Sell whose fee
\* is at least amount * price.
C28_PositiveTx ==
    (/\ last_trade # NoTrade
     /\ last_trade.amount > 0
     /\ last_trade.price > 0
     /\ last_trade.fee > 0)
        => /\ last_tx = to_tx(last_trade)
           /\ last_tx.sell_size > 0
           /\ last_tx.buy_size > 0

\* C29: every record add-tx writes is admitted by the Trade validator when
\* the log is next read, for all qty, price and fee the command accepts.
C29_WrittenIsAdmitted ==
    (call.fn = "roundtrip" /\ call.src = "add-tx") => call.back.ok

====
